---------------------------- MODULE Spec2Model ----------------------------
(***************************************************************************)
(* File Scavenger (VS Code extension): the scan command, the reference     *)
(* heuristic, the override store, the tree/decoration providers and the    *)
(* deletion watcher of src/README.md (the extension's TypeScript source,   *)
(* lines 207-518), as one state machine.                                   *)
(*                                                                         *)
(* Strings are sequences of one-character strings, so that includes,       *)
(* split, join, extname and toLowerCase are computed and not assumed.      *)
(* A path is the sequence of entry names below the workspace folder; the   *)
(* workspace folder itself is the empty path.                              *)
(*                                                                         *)
(* Atomicity follows the event loop: a handler runs without interruption   *)
(* from one await on real I/O to the next.  The scan is suspended while    *)
(* the configuration is read and the tree is walked (pc = "walking") and   *)
(* while the files of a batch are read for one candidate (pc =             *)
(* "reading"); everything between two such points is one step.  All the    *)
(* reads for one candidate are taken at one instant.                       *)
(***************************************************************************)
EXTENDS Integers, Sequences, FiniteSets, TLC

\* ---------------------------------------------------------------- bounds
\* Number of filler files p00.ts, p01.ts, ... of the large workspace.
NPad == 99
\* Scans a behaviour may start.
MaxScans == 2
\* Toggle, reset and file-deletion events a behaviour may contain.
MaxOps == 2
\* setTimeout callbacks that may be pending at once.
MaxTimers == 2
\* The same two, for the large workspace.
MaxScansLarge == 1
MaxOpsLarge == 1
\* The same two, for a scan of the large workspace by itself.
MaxScansBatch == 1
MaxOpsBatch == 1
\* The same two, for the specification with fairness.
MaxScansLive == 1
MaxOpsLive == 2

\* ------------------------------------------------------ program constants
\* const batchSize = 100;
batchSize == 100

\* ------------------------------------------------------------- strings
\* String.prototype.includes
includes(content, needle) ==
  \E k \in 0..(Len(content) - Len(needle)) :
     SubSeq(content, k + 1, k + Len(needle)) = needle

\* Array.prototype.includes
arrayIncludes(arr, x) == \E k \in 1..Len(arr) : arr[k] = x

\* String.prototype.split(sep), sep one character
RECURSIVE split(_, _)
split(s, sep) ==
  IF \A k \in 1..Len(s) : s[k] # sep
  THEN <<s>>
  ELSE LET k == CHOOSE n \in 1..Len(s) : s[n] = sep /\ \A m \in 1..(n - 1) : s[m] # sep
       IN  <<SubSeq(s, 1, k - 1)>> \o split(SubSeq(s, k + 1, Len(s)), sep)

\* Array.prototype.join(sep)
RECURSIVE join(_, _)
join(arr, sep) ==
  IF arr = <<>> THEN <<>>
  ELSE IF Len(arr) = 1 THEN arr[1]
  ELSE arr[1] \o <<sep>> \o join(Tail(arr), sep)

\* Array.prototype.slice(start, end) with 0 <= start <= end
slice(arr, start, end) ==
  SubSeq(arr, start + 1, IF end < Len(arr) THEN end ELSE Len(arr))

\* fileNameWithoutExtension that keeps the extension
fileNameWithExtension(fileName) == fileName

\* fileName.split('.').slice(0, -1).join('.')
fileNameWithoutExtension(fileName) ==
  LET parts == split(fileName, ".")
  IN  join(slice(parts, 0, Len(parts) - 1), ".")

\* String.prototype.toLowerCase on one character
lowerChar(c) ==
  CASE c = "A" -> "a" [] c = "B" -> "b" [] c = "C" -> "c" [] c = "D" -> "d"
    [] c = "E" -> "e" [] c = "F" -> "f" [] c = "G" -> "g" [] c = "H" -> "h"
    [] c = "I" -> "i" [] c = "J" -> "j" [] c = "K" -> "k" [] c = "L" -> "l"
    [] c = "M" -> "m" [] c = "N" -> "n" [] c = "O" -> "o" [] c = "P" -> "p"
    [] c = "Q" -> "q" [] c = "R" -> "r" [] c = "S" -> "s" [] c = "T" -> "t"
    [] c = "U" -> "u" [] c = "V" -> "v" [] c = "W" -> "w" [] c = "X" -> "x"
    [] c = "Y" -> "y" [] c = "Z" -> "z" [] OTHER -> c

toLowerCase(s) == [k \in 1..Len(s) |-> lowerChar(s[k])]

\* path.basename: the last entry name of a path
basename(file) == file[Len(file)]

\* path.join(dirPath, item.name)
pathJoin(dirPath, name) == Append(dirPath, name)

\* path.extname: from the last '.' of the basename to its end; empty when
\* there is no '.' or the only '.' is the first character
extname(file) ==
  LET b    == basename(file)
      dots == {k \in 1..Len(b) : b[k] = "."}
      last == IF dots = {} THEN 0 ELSE CHOOSE k \in dots : \A m \in dots : m <= k
  IN  IF last <= 1 THEN <<>> ELSE SubSeq(b, last, Len(b))

\* ------------------------------------------------------- configuration
defaultConfig ==
  [ fileTypes |-> <<
     <<".","j","s">>, <<".","t","s">>, <<".","j","s","x">>, <<".","t","s","x">>,
     <<".","c","s","s">>, <<".","s","c","s","s">>, <<".","l","e","s","s">>, <<".","h","t","m","l">>,
     <<".","h","t","m">>, <<".","j","s","o","n">>, <<".","x","m","l">>, <<".","y","m","l">>,
     <<".","y","a","m","l">>, <<".","p","n","g">>, <<".","j","p","g">>, <<".","j","p","e","g">>,
     <<".","s","v","g">>, <<".","g","i","f">>, <<".","b","m","p">>, <<".","i","c","o">>,
     <<".","w","e","b","p">>, <<".","m","p","4">>, <<".","m","p","3">>, <<".","w","a","v">>,
     <<".","o","g","g">>, <<".","p","d","f">>, <<".","m","d">>, <<".","t","x","t">>,
     <<".","c","s","v">>, <<".","s","q","l">>, <<".","s","h">>, <<".","b","a","t">>,
     <<".","p","s","1">>, <<".","p","y">>, <<".","r","b">>, <<".","p","h","p">>,
     <<".","j","a","v","a">>, <<".","c","p","p">>, <<".","c">>, <<".","h">>, <<".","g","o">>,
     <<".","r","s">>, <<".","s","w","i","f","t">>, <<".","k","t">>, <<".","d","a","r","t">>,
     <<".","l","u","a">>, <<".","p","l">>, <<".","r">>, <<".","h","s">>,
     <<".","s","c","a","l","a">>, <<".","c","l","j">>, <<".","e","l","m">>, <<".","e","r","l">>,
     <<".","e","x">>, <<".","f","s">>, <<".","g","r","o","o","v","y">>, <<".","j","l">>,
     <<".","n","i","m">>, <<".","p","d","e">>, <<".","v">>, <<".","v","b">>, <<".","v","b","s">>,
     <<".","z","i","g">> >>,
    ignoreFolders |-> <<
     <<"n","o","d","e","_","m","o","d","u","l","e","s">>, <<".","g","i","t">>, <<"d","i","s","t">>,
     <<"b","u","i","l","d">>, <<"o","u","t">>, <<"b","i","n">>, <<"o","b","j">>,
     <<"v","e","n","d","o","r">>, <<"l","o","g","s">>, <<"t","e","m","p">> >>,
    ignoreRootFiles |-> <<
     <<"R","E","A","D","M","E",".","m","d">>, <<"p","a","c","k","a","g","e",".","j","s","o","n">>,
     <<"p","a","c","k","a","g","e","-","l","o","c","k",".","j","s","o","n">>,
     <<"t","s","c","o","n","f","i","g",".","j","s","o","n">>,
     <<"w","e","b","p","a","c","k",".","c","o","n","f","i","g",".","j","s">>,
     <<".","g","i","t","i","g","n","o","r","e">>, <<".","e","n","v">>,
     <<".","e","n","v",".","l","o","c","a","l">>,
     <<"d","o","c","k","e","r","-","c","o","m","p","o","s","e",".","y","m","l">>,
     <<"M","a","k","e","f","i","l","e">>, <<"P","r","o","c","f","i","l","e">> >> ]

\* readConfigFile: the defaults, overlaid key by key with .filescavengerrc
\* when it exists and parses.  rc = [exists, parses, value], value the
\* parsed object restricted to the three recognised keys.
readConfigFile(rc) ==
  IF ~rc.exists THEN defaultConfig
  ELSE IF ~rc.parses THEN defaultConfig
  ELSE [k \in DOMAIN defaultConfig |->
          IF k \in DOMAIN rc.value THEN rc.value[k] ELSE defaultConfig[k]]

\* ----------------------------------------------------------- file system
\* disk maps each existing path to its node.  A directory lists its entry
\* names in readdir order; readable = FALSE makes readdir (readFile) throw.
Dir(items, readable) ==
  [isDirectory |-> TRUE, items |-> items, readable |-> readable, content |-> <<>>]
File(content, readable) ==
  [isDirectory |-> FALSE, items |-> <<>>, readable |-> readable, content |-> content]

\* fs.promises.readdir(dirPath, {withFileTypes: true}) does not throw
readdirOk(d, dirPath) ==
  dirPath \in DOMAIN d /\ d[dirPath].isDirectory /\ d[dirPath].readable

\* readFile(file, 'utf-8') does not throw
readFileOk(d, file) ==
  file \in DOMAIN d /\ ~d[file].isDirectory /\ d[file].readable

\* skipsItem with the folder test left out
skipsItemFilesOnly(isDir, name, ignoreFolders, ignoreRootFiles) ==
  ~isDir /\ arrayIncludes(ignoreRootFiles, name)

\* skipsItem whose ignoreRootFiles test does not look at the item's kind
skipsItemByName(isDir, name, ignoreFolders, ignoreRootFiles) ==
  \/ isDir /\ arrayIncludes(ignoreFolders, name)
  \/ arrayIncludes(ignoreRootFiles, name)

\* getAllFiles, the two `continue` conditions on one directory item
skipsItem(isDir, name, ignoreFolders, ignoreRootFiles) ==
  \/ isDir /\ arrayIncludes(ignoreFolders, name)
  \/ ~isDir /\ arrayIncludes(ignoreRootFiles, name)

\* getAllFiles: the readdir with its catch-all (getAllFiles) and the loop
\* over the items lo..hi of one directory, in order (walkItems; the range
\* is halved so that a long directory does not nest deeply)
RECURSIVE getAllFiles(_, _, _, _)
RECURSIVE walkItems(_, _, _, _, _, _)
walkItems(d, dirPath, lo, hi, ignoreFolders, ignoreRootFiles) ==
  IF lo > hi THEN <<>>
  ELSE IF lo = hi
  THEN LET name     == d[dirPath].items[lo]
           fullPath == pathJoin(dirPath, name)
           isDir    == d[fullPath].isDirectory
       IN  IF skipsItem(isDir, name, ignoreFolders, ignoreRootFiles) THEN <<>>
           ELSE IF isDir
           THEN getAllFiles(d, fullPath, ignoreFolders, ignoreRootFiles)
           ELSE <<fullPath>>
  ELSE LET mid == (lo + hi) \div 2
       IN  walkItems(d, dirPath, lo, mid, ignoreFolders, ignoreRootFiles) \o
           walkItems(d, dirPath, mid + 1, hi, ignoreFolders, ignoreRootFiles)

getAllFiles(d, dirPath, ignoreFolders, ignoreRootFiles) ==
  IF ~readdirOk(d, dirPath) THEN <<>>
  ELSE walkItems(d, dirPath, 1, Len(d[dirPath].items), ignoreFolders, ignoreRootFiles)

\* allFiles.filter(file => config.fileTypes.includes(path.extname(file).toLowerCase()))
filterTracked(files, config) ==
  SelectSeq(files, LAMBDA file : arrayIncludes(config.fileTypes, toLowerCase(extname(file))))

\* ------------------------------------------------------- override store
\* vscode.Memento: userOverrides.get<boolean>(file, false)
get(overrides, file) ==
  IF file \in DOMAIN overrides THEN overrides[file] ELSE FALSE

\* userOverrides.update(key, value)
update(overrides, key, value) ==
  [k \in DOMAIN overrides \cup {key} |-> IF k = key THEN value ELSE overrides[k]]

\* updateUndefined that leaves the stored value in place
updateUndefinedKeeps(overrides, key) == overrides

\* userOverrides.update(key, undefined): the key is removed
updateUndefined(overrides, key) ==
  [k \in DOMAIN overrides \ {key} |-> overrides[k]]

\* clearOverrides that leaves the store as the earlier session left it
clearOverridesKeeps(overrides) == overrides

\* userOverrides.keys().forEach(key => userOverrides.update(key, undefined))
clearOverrides(overrides) == [k \in {} |-> TRUE]

\* ---------------------------------------------------- reference heuristic
\* skipsOverridden that never skips
skipsOverriddenNever(overrides, file) == FALSE

\* findUnusedFiles: if (userOverrides.get<boolean>(file, false)) { continue; }
skipsOverridden(overrides, file) == get(overrides, file)

\* isUsed with the exact-name test alone
isUsedExactOnly(d, file, given) ==
  \E k \in 1..Len(given) :
     /\ given[k] # file
     /\ readFileOk(d, given[k])
     /\ includes(d[given[k]].content, basename(file))

\* findUnusedFiles, the inner loop over the files the engine was given:
\* isUsed is set by the first other file that can be read and whose content
\* includes the candidate's name or its name without extension
isUsed(d, file, given) ==
  LET fileName == basename(file)
      stem     == fileNameWithoutExtension(fileName)
  IN  \E k \in 1..Len(given) :
         LET otherFile == given[k]
             content   == d[otherFile].content
         IN  /\ otherFile # file
             /\ readFileOk(d, otherFile)
             /\ \/ includes(content, fileName)
                \/ includes(content, stem)

\* the inner loop awaits at least one readFile
awaitsRead(file, given) == \E k \in 1..Len(given) : given[k] # file

\* batchAt that takes the loop index for a 1-based position
batchAtFromOne(tracked, i) == slice(tracked, i + 1, i + batchSize + 1)

\* batchAt whose slice ends one element late
batchAtOneMore(tracked, i) == slice(tracked, i, i + batchSize + 1)

\* trackedFiles.slice(i, i + batchSize)
batchAt(tracked, i) == slice(tracked, i, i + batchSize)

\* the list findUnusedFiles compares a candidate against: its first argument
engineInput(tracked, i) == batchAt(tracked, i)

\* progress.report({increment: (batch.length / totalFiles) * 100,
\*                  message: `Processed ${processedFiles} of ${totalFiles} files...`})
progressReport(proc, total, batchLength) ==
  [processed |-> proc, total |-> total, batchLength |-> batchLength]

\* The scan from a given position up to its next suspension or its end.
\* loopHead is the head of the batch loop of highlightUnusedFiles
\* (for (let i = 0; i < totalFiles; i += batchSize)); engineFrom is the outer
\* loop of findUnusedFiles at candidate j (1-based) of the batch at i, whose
\* result so far is bu; acc and proc are unusedFiles and processedFiles of
\* the command, rep the progress reports it has made.  exu records the
\* candidates for which userOverrides.get read true when the engine
\* examined them.  The result is the scan's position and locals; at the end
\* of the scan j is the position at which the engine left its last batch
\* (beyond the batch when it examined every candidate).
RECURSIVE loopHead(_, _, _, _, _, _, _, _, _)
RECURSIVE engineFrom(_, _, _, _, _, _, _, _, _, _)
loopHead(tracked, overrides, tok, i, j, acc, proc, rep, exu) ==
  IF i < Len(tracked)
  THEN IF tok
       THEN [pc |-> "cancelled", i |-> i, j |-> j, batchUnusedFiles |-> <<>>,
             unusedFiles |-> acc, processedFiles |-> proc, reports |-> rep,
             examinedUsed |-> exu]
       ELSE engineFrom(tracked, overrides, tok, i, 1, <<>>, acc, proc, rep, exu)
  ELSE [pc |-> "done", i |-> i, j |-> j, batchUnusedFiles |-> <<>>,
        unusedFiles |-> acc, processedFiles |-> proc, reports |-> rep,
        examinedUsed |-> exu]

engineFrom(tracked, overrides, tok, i, j, bu, acc, proc, rep, exu) ==
  LET given == engineInput(tracked, i)
      batch == batchAt(tracked, i)
  IN  IF j > Len(batch) \/ tok
      THEN loopHead(tracked, overrides, tok, i + batchSize, j, acc \o bu,
                    proc + Len(batch),
                    Append(rep, progressReport(proc + Len(batch), Len(tracked), Len(batch))),
                    exu)
      ELSE LET exu2 == IF get(overrides, batch[j]) THEN exu \cup {batch[j]} ELSE exu
           IN  IF skipsOverridden(overrides, batch[j])
               THEN engineFrom(tracked, overrides, tok, i, j + 1, bu, acc, proc, rep, exu2)
               ELSE IF ~awaitsRead(batch[j], given)
               THEN engineFrom(tracked, overrides, tok, i, j + 1, Append(bu, batch[j]),
                               acc, proc, rep, exu2)
               ELSE [pc |-> "reading", i |-> i, j |-> j, batchUnusedFiles |-> bu,
                     unusedFiles |-> acc, processedFiles |-> proc, reports |-> rep,
                     examinedUsed |-> exu2]

\* -------------------------------------------------------------- providers
\* getChildren without its filter
getChildrenUnfiltered(list, overrides) == list

\* UnusedFileProvider.getChildren: the paths of the items it returns
getChildren(list, overrides) ==
  SelectSeq(list, LAMBDA file : ~get(overrides, file))

\* new Set(unusedFiles) of UnusedFileDecorationProvider.updateUnusedFiles
setOf(list) == {list[k] : k \in 1..Len(list)}

\* withoutPath that removes nothing
withoutPathKeepsAll(list, deletedFilePath) == list

\* withoutPath with the comparison inverted
withoutPathInverted(list, deletedFilePath) ==
  SelectSeq(list, LAMBDA file : file = deletedFilePath)

\* unusedFiles.filter(file => file !== deletedFilePath)
withoutPath(list, deletedFilePath) ==
  SelectSeq(list, LAMBDA file : file # deletedFilePath)

\* the file at path p leaves the disk with its directory entry
removeFile(d, p) ==
  LET parent == SubSeq(p, 1, Len(p) - 1)
  IN  [q \in DOMAIN d \ {p} |->
         IF q = parent
         THEN [d[q] EXCEPT !.items = SelectSeq(@, LAMBDA n : n # basename(p))]
         ELSE d[q]]

\* ---------------------------------------------------------------- worlds
a_ts == <<"a", ".", "t", "s">>
b_ts == <<"b", ".", "t", "s">>
c_ts == <<"c", ".", "t", "s">>
e_ts == <<"e", ".", "t", "s">>
f_ts == <<"f", ".", "t", "s">>
g_ts == <<"g", ".", "t", "s">>
k_ts == <<"k", ".", "t", "s">>
q_ts == <<"q", ".", "t", "s">>
w_ts == <<"w", ".", "t", "s">>
x_ts == <<"x", ".", "t", "s">>
y_ts == <<"y", ".", "t", "s">>
z_ts == <<"z", ".", "t", "s">>
src == <<"s", "r", "c">>
vendor == <<"v", "e", "n", "d", "o", "r">>
locked == <<"l", "o", "c", "k", "e", "d">>
README_md == <<"R", "E", "A", "D", "M", "E", ".", "m", "d">>
dot_ts == <<".", "t", "s">>

\* import "./a"
importA == <<"i", "m", "p", "o", "r", "t", " ", "\"", ".", "/", "a", "\"">>
\* import "./g"
importG == <<"i", "m", "p", "o", "r", "t", " ", "\"", ".", "/", "g", "\"">>

digit == <<"0", "1", "2", "3", "4", "5", "6", "7", "8", "9">>
\* p00.ts, p01.ts, ...
padName(n) == <<"p", digit[(n \div 10) + 1], digit[(n % 10) + 1], ".", "t", "s">>

noRc == [exists |-> FALSE, parses |-> FALSE, value |-> [k \in {} |-> <<>>]]
badRc == [exists |-> TRUE, parses |-> FALSE, value |-> [k \in {} |-> <<>>]]
\* {"fileTypes": [".ts"], "ignoreFolders": [], "ignoreRootFiles": []}
tsOnlyRc ==
  [exists |-> TRUE, parses |-> TRUE,
   value |-> [fileTypes |-> <<dot_ts>>, ignoreFolders |-> <<>>, ignoreRootFiles |-> <<>>]]

\* a.ts (empty), b.ts containing import "./a", c.ts (empty)
exampleDisk ==
  (<<>> :> Dir(<<a_ts, b_ts, c_ts>>, TRUE)) @@
  (<<a_ts>> :> File(<<>>, TRUE)) @@
  (<<b_ts>> :> File(importA, TRUE)) @@
  (<<c_ts>> :> File(<<>>, TRUE))

\* README.md, src/{y.ts naming z.ts, z.ts, q.ts unreadable, vendor/x.ts},
\* vendor/w.ts, locked/ (unreadable) {k.ts}
nestedDisk ==
  (<<>> :> Dir(<<README_md, src, vendor, locked>>, TRUE)) @@
  (<<README_md>> :> File(y_ts, TRUE)) @@
  (<<src>> :> Dir(<<y_ts, z_ts, q_ts, vendor>>, TRUE)) @@
  (<<src, y_ts>> :> File(z_ts, TRUE)) @@
  (<<src, z_ts>> :> File(<<>>, TRUE)) @@
  (<<src, q_ts>> :> File(y_ts, FALSE)) @@
  (<<src, vendor>> :> Dir(<<x_ts>>, TRUE)) @@
  (<<src, vendor, x_ts>> :> File(<<>>, TRUE)) @@
  (<<vendor>> :> Dir(<<w_ts>>, TRUE)) @@
  (<<vendor, w_ts>> :> File(<<>>, TRUE)) @@
  (<<locked>> :> Dir(<<k_ts>>, FALSE)) @@
  (<<locked, k_ts>> :> File(<<>>, TRUE))

\* g.ts, b.ts (import "./g"), NPad empty filler files, e.ts naming b.ts,
\* f.ts naming e.ts: more than batchSize tracked files, and the file b.ts
\* named by e.ts falls in another batch than e.ts
largeDisk ==
  (<<>> :> Dir(<<g_ts, b_ts>> \o [n \in 1..NPad |-> padName(n - 1)] \o <<e_ts, f_ts>>, TRUE)) @@
  (<<g_ts>> :> File(<<>>, TRUE)) @@
  (<<b_ts>> :> File(importG, TRUE)) @@
  [p \in {<<padName(n - 1)>> : n \in 1..NPad} |-> File(<<>>, TRUE)] @@
  (<<e_ts>> :> File(b_ts, TRUE)) @@
  (<<f_ts>> :> File(e_ts, TRUE))

\* the paths the user toggles, resets and deletes
Targets == {<<a_ts>>, <<b_ts>>, <<c_ts>>, <<src, y_ts>>, <<src, z_ts>>}

\* overrides left in globalState by an earlier session
PriorSessions == {[k \in {} |-> TRUE], [k \in {<<c_ts>>} |-> TRUE]}

SmallWorlds ==
  { [disk |-> exampleDisk, rc |-> tsOnlyRc, workspaceFolders |-> TRUE],
    [disk |-> nestedDisk, rc |-> noRc, workspaceFolders |-> TRUE],
    [disk |-> exampleDisk, rc |-> badRc, workspaceFolders |-> FALSE] }

LargeWorlds ==
  { [disk |-> largeDisk, rc |-> tsOnlyRc, workspaceFolders |-> TRUE],
    [disk |-> exampleDisk, rc |-> noRc, workspaceFolders |-> FALSE] }

\* ----------------------------------------------------------------- state
VARIABLES
  activated,              \* activate() has run
  workspaceFolders,       \* vscode.workspace.workspaceFolders is defined
  disk,                   \* the workspace folder's tree
  rc,                     \* .filescavengerrc
  userOverrides,          \* context.globalState
  pc,                     \* position of the highlightUnusedFiles command
  token,                  \* token.isCancellationRequested
  allFiles,               \* locals of the command and of findUnusedFiles
  trackedFiles,
  i,
  j,
  batchUnusedFiles,
  unusedFiles,
  processedFiles,
  providerUnusedFiles,    \* UnusedFileProvider.unusedFiles
  decorationUnusedFiles,  \* UnusedFileDecorationProvider.unusedFiles
  timers,                 \* pending setTimeout callbacks of toggleFileStatus
  watcherEvents,          \* deletions the file watcher has still to deliver
  message,                \* the last notification shown
  reports,                \* the progress reports of the current scan
  shown,                  \* the tree view: getChildren at the last refresh
  scansLeft,              \* bounds on the behaviour
  opsLeft,
  startOverrides,         \* history: userOverrides when the scan was invoked
  pinned,                 \* history: marked used since before the scan began
  resetClean,             \* history: reset, and not toggled since
  scanClean,              \* history: resetClean at scan start, not toggled since
  everUsed,               \* history: marked used at some time since activation
  storeChanged,           \* history: a toggle or reset ran since the scan began
  diskChanged,            \* history: a file was deleted since the scan began
  examinedUsed,           \* history: candidates whose override read "used"
  stale,                  \* history: a toggle ran and no refresh fired since
  published,              \* history: the list the last completed scan published
  reportedDeleted         \* history: deletions notified since that publication

vars ==
  <<activated, workspaceFolders, disk, rc, userOverrides, pc, token, allFiles,
    trackedFiles, i, j, batchUnusedFiles, unusedFiles, processedFiles,
    providerUnusedFiles, decorationUnusedFiles, timers, watcherEvents, message,
    reports, shown, scansLeft, opsLeft, startOverrides, pinned, resetClean,
    scanClean, everUsed, storeChanged, diskChanged, examinedUsed, stale, published,
    reportedDeleted>>

scanVars ==
  <<pc, token, allFiles, trackedFiles, i, j, batchUnusedFiles, unusedFiles, processedFiles,
    reports, examinedUsed>>
viewVars == <<shown, stale, published, reportedDeleted>>
historyVars ==
  <<startOverrides, pinned, resetClean, scanClean, everUsed, storeChanged, diskChanged>>
worldVars == <<workspaceFolders, disk, rc>>

noMessage == [text |-> "", found |-> 0]

InitWith(worlds, scans, ops) ==
  /\ \E w \in worlds :
       /\ disk = w.disk
       /\ rc = w.rc
       /\ workspaceFolders = w.workspaceFolders
  /\ userOverrides \in PriorSessions
  /\ activated = FALSE
  /\ pc = "idle"
  /\ token = FALSE
  /\ allFiles = <<>>
  /\ trackedFiles = <<>>
  /\ i = 0
  /\ j = 0
  /\ batchUnusedFiles = <<>>
  /\ unusedFiles = <<>>
  /\ processedFiles = 0
  /\ providerUnusedFiles = <<>>
  /\ decorationUnusedFiles = {}
  /\ timers = 0
  /\ watcherEvents = {}
  /\ message = noMessage
  /\ scansLeft = scans
  /\ opsLeft = ops
  /\ startOverrides = [k \in {} |-> TRUE]
  /\ pinned = {}
  /\ resetClean = {}
  /\ scanClean = {}
  /\ everUsed = {}
  /\ storeChanged = FALSE
  /\ diskChanged = FALSE
  /\ reports = <<>>
  /\ examinedUsed = {}
  /\ shown = <<>>
  /\ stale = FALSE
  /\ published = <<>>
  /\ reportedDeleted = {}

Init == InitWith(SmallWorlds, MaxScans, MaxOps)

\* ---------------------------------------------------------------- actions
\* activate: the overrides of earlier sessions are cleared, the providers
\* are constructed, the commands and the watcher are registered
Activate ==
  /\ ~activated
  /\ activated' = TRUE
  /\ userOverrides' = clearOverrides(userOverrides)
  /\ providerUnusedFiles' = <<>>
  /\ decorationUnusedFiles' = {}
  /\ shown' = getChildren(<<>>, clearOverrides(userOverrides))
  /\ UNCHANGED <<worldVars, scanVars, timers, watcherEvents, message, scansLeft,
                 opsLeft, historyVars, stale, published, reportedDeleted>>

\* the scan is between two runs of the command (scan requests are
\* serialised: the command is not invoked again while it is running)
scanAtRest == pc \in {"idle", "done", "cancelled"}

\* HighlightNoWorkspace without its return: the error is shown and the
\* command goes on to the scan
HighlightNoWorkspaceFallsThrough ==
  /\ activated /\ scanAtRest /\ scansLeft > 0
  /\ ~workspaceFolders
  /\ message' = [text |-> "No workspace folder is open.", found |-> 0]
  /\ scansLeft' = scansLeft - 1
  /\ pc' = "walking"
  /\ UNCHANGED <<activated, worldVars, userOverrides, token, allFiles, trackedFiles, i, j,
                 batchUnusedFiles, unusedFiles, processedFiles, reports, examinedUsed,
                 providerUnusedFiles, decorationUnusedFiles, timers, watcherEvents,
                 opsLeft, historyVars, viewVars>>

\* extension.highlightUnusedFiles without a workspace folder
HighlightNoWorkspace ==
  /\ activated /\ scanAtRest /\ scansLeft > 0
  /\ ~workspaceFolders
  /\ message' = [text |-> "No workspace folder is open.", found |-> 0]
  /\ scansLeft' = scansLeft - 1
  /\ UNCHANGED <<activated, worldVars, userOverrides, scanVars, providerUnusedFiles,
                 decorationUnusedFiles, timers, watcherEvents, opsLeft, historyVars,
                 viewVars>>

\* extension.highlightUnusedFiles up to its first await: withProgress hands
\* its callback a fresh token, readConfigFile and getAllFiles are started.
\* The catch branch of the command is not modelled: with a configuration
\* whose three keys are arrays nothing inside the try block throws.
HighlightUnusedFiles ==
  /\ activated /\ scanAtRest /\ scansLeft > 0
  /\ workspaceFolders
  /\ pc' = "walking"
  /\ token' = FALSE
  /\ allFiles' = <<>>
  /\ trackedFiles' = <<>>
  /\ i' = 0
  /\ j' = 0
  /\ batchUnusedFiles' = <<>>
  /\ unusedFiles' = <<>>
  /\ processedFiles' = 0
  /\ reports' = <<>>
  /\ examinedUsed' = {}
  /\ scansLeft' = scansLeft - 1
  /\ startOverrides' = userOverrides
  /\ pinned' = {p \in DOMAIN userOverrides : userOverrides[p]}
  /\ scanClean' = resetClean
  /\ storeChanged' = FALSE
  /\ diskChanged' = FALSE
  /\ UNCHANGED <<activated, worldVars, userOverrides, providerUnusedFiles,
                 decorationUnusedFiles, timers, watcherEvents, message, opsLeft,
                 resetClean, everUsed, viewVars>>

\* the command after one of its suspensions, at the position r it has run
\* to: the locals, and at the end of the batch loop either the cancellation
\* message or the publication of the result
resume(r) ==
  /\ pc' = r.pc
  /\ i' = r.i
  /\ j' = r.j
  /\ batchUnusedFiles' = r.batchUnusedFiles
  /\ unusedFiles' = r.unusedFiles
  /\ processedFiles' = r.processedFiles
  /\ reports' = r.reports
  /\ examinedUsed' = r.examinedUsed
  /\ IF r.pc = "done"
     THEN /\ providerUnusedFiles' = r.unusedFiles
          /\ shown' = getChildren(r.unusedFiles, userOverrides)
          /\ stale' = FALSE
          /\ published' = r.unusedFiles
          /\ reportedDeleted' = {}
          /\ decorationUnusedFiles' = setOf(r.unusedFiles)
          /\ message' = [text |-> "Scan complete.", found |-> Len(r.unusedFiles)]
     ELSE IF r.pc = "cancelled"
     THEN /\ message' = [text |-> "Scan canceled by user.", found |-> 0]
          /\ UNCHANGED <<providerUnusedFiles, decorationUnusedFiles, viewVars>>
     ELSE UNCHANGED <<providerUnusedFiles, decorationUnusedFiles, message, viewVars>>

\* the configuration is read, the tree is walked, the tracked files are
\* selected, and the batch loop runs to its first read
WalkDone ==
  /\ pc = "walking"
  /\ LET config  == readConfigFile(rc)
         files   == getAllFiles(disk, <<>>, config.ignoreFolders, config.ignoreRootFiles)
         tracked == filterTracked(files, config)
     IN  /\ allFiles' = files
         /\ trackedFiles' = tracked
         /\ resume(loopHead(tracked, userOverrides, token, 0, 0, <<>>, 0, <<>>, {}))
  /\ UNCHANGED <<activated, worldVars, userOverrides, token, timers, watcherEvents,
                 scansLeft, opsLeft, historyVars>>

\* the reads for candidate j of the current batch are in: the candidate is
\* classified, and the scan runs to its next read or to its end
ReadDone ==
  /\ pc = "reading"
  /\ LET given == engineInput(trackedFiles, i)
         file  == batchAt(trackedFiles, i)[j]
         bu    == IF isUsed(disk, file, given)
                  THEN batchUnusedFiles
                  ELSE Append(batchUnusedFiles, file)
     IN  resume(engineFrom(trackedFiles, userOverrides, token, i, j + 1, bu,
                           unusedFiles, processedFiles, reports, examinedUsed))
  /\ UNCHANGED <<activated, worldVars, userOverrides, token, allFiles, trackedFiles,
                 timers, watcherEvents, scansLeft, opsLeft, historyVars>>

\* the user presses Cancel on the progress notification
Cancel ==
  /\ pc \in {"walking", "reading"}
  /\ ~token
  /\ token' = TRUE
  /\ UNCHANGED <<activated, worldVars, userOverrides, pc, allFiles, trackedFiles, i, j,
                 batchUnusedFiles, unusedFiles, processedFiles, providerUnusedFiles,
                 decorationUnusedFiles, timers, watcherEvents, message, scansLeft,
                 opsLeft, historyVars, reports, examinedUsed, viewVars>>

\* a file the user can point at: in the explorer or in the tree view
selectable(p) ==
  \/ p \in DOMAIN disk /\ ~disk[p].isDirectory
  \/ p \in setOf(providerUnusedFiles)

\* extension.toggleFileStatus
ToggleFileStatus(filePath) ==
  /\ activated /\ opsLeft > 0 /\ timers < MaxTimers
  /\ selectable(filePath)
  /\ userOverrides' = update(userOverrides, filePath, ~get(userOverrides, filePath))
  /\ decorationUnusedFiles' = setOf(providerUnusedFiles)
  /\ timers' = timers + 1
  /\ opsLeft' = opsLeft - 1
  /\ pinned' = pinned \ {filePath}
  /\ resetClean' = resetClean \ {filePath}
  /\ scanClean' = scanClean \ {filePath}
  /\ everUsed' = IF get(userOverrides, filePath) THEN everUsed ELSE everUsed \cup {filePath}
  /\ storeChanged' = TRUE
  /\ stale' = TRUE
  /\ UNCHANGED <<activated, worldVars, scanVars, providerUnusedFiles, watcherEvents,
                 message, scansLeft, startOverrides, diskChanged, shown, published,
                 reportedDeleted>>

\* ToggleTimer whose callback does not refresh the tree view
ToggleTimerNoRefresh ==
  /\ timers > 0
  /\ timers' = timers - 1
  /\ decorationUnusedFiles' = setOf(providerUnusedFiles)
  /\ UNCHANGED <<activated, worldVars, userOverrides, scanVars, providerUnusedFiles,
                 watcherEvents, message, scansLeft, opsLeft, historyVars, viewVars>>

\* the setTimeout callback of toggleFileStatus, 800 ms later
ToggleTimer ==
  /\ timers > 0
  /\ timers' = timers - 1
  /\ providerUnusedFiles' = providerUnusedFiles
  /\ shown' = getChildren(providerUnusedFiles, userOverrides)
  /\ stale' = FALSE
  /\ decorationUnusedFiles' = setOf(providerUnusedFiles)
  /\ UNCHANGED <<activated, worldVars, userOverrides, scanVars, watcherEvents, message,
                 scansLeft, opsLeft, historyVars, published, reportedDeleted>>

\* extension.resetFileState
ResetFileState(filePath) ==
  /\ activated /\ opsLeft > 0
  /\ selectable(filePath)
  /\ userOverrides' = updateUndefined(userOverrides, filePath)
  /\ providerUnusedFiles' = providerUnusedFiles
  /\ shown' = getChildren(providerUnusedFiles, updateUndefined(userOverrides, filePath))
  /\ stale' = FALSE
  /\ decorationUnusedFiles' = setOf(providerUnusedFiles)
  /\ opsLeft' = opsLeft - 1
  /\ pinned' = pinned \ {filePath}
  /\ resetClean' = resetClean \cup {filePath}
  /\ storeChanged' = TRUE
  /\ UNCHANGED <<activated, worldVars, scanVars, timers, watcherEvents, message,
                 scansLeft, startOverrides, scanClean, everUsed, diskChanged, published,
                 reportedDeleted>>

\* a file of the workspace is deleted; the watcher will report it
DeleteFile(p) ==
  /\ activated /\ opsLeft > 0
  /\ p \in DOMAIN disk /\ ~disk[p].isDirectory
  /\ disk' = removeFile(disk, p)
  /\ watcherEvents' = watcherEvents \cup {p}
  /\ opsLeft' = opsLeft - 1
  /\ diskChanged' = TRUE
  /\ UNCHANGED <<activated, workspaceFolders, rc, userOverrides, scanVars,
                 providerUnusedFiles, decorationUnusedFiles, timers, message, scansLeft,
                 startOverrides, pinned, resetClean, scanClean, everUsed, storeChanged,
                 viewVars>>

\* fileWatcher.onDidDelete
OnDidDelete(deletedFilePath) ==
  /\ deletedFilePath \in watcherEvents
  /\ watcherEvents' = watcherEvents \ {deletedFilePath}
  /\ providerUnusedFiles' = withoutPath(providerUnusedFiles, deletedFilePath)
  /\ shown' = getChildren(withoutPath(providerUnusedFiles, deletedFilePath), userOverrides)
  /\ stale' = FALSE
  /\ reportedDeleted' = reportedDeleted \cup {deletedFilePath}
  /\ decorationUnusedFiles' = setOf(withoutPath(providerUnusedFiles, deletedFilePath))
  /\ UNCHANGED <<activated, worldVars, userOverrides, scanVars, timers, message,
                 scansLeft, opsLeft, historyVars, published>>

Next ==
  \/ Activate
  \/ HighlightNoWorkspace
  \/ HighlightUnusedFiles
  \/ WalkDone
  \/ ReadDone
  \/ Cancel
  \/ \E p \in Targets : ToggleFileStatus(p)
  \/ ToggleTimer
  \/ \E p \in Targets : ResetFileState(p)
  \/ \E p \in Targets : DeleteFile(p)
  \/ \E p \in Targets : OnDidDelete(p)

Spec == Init /\ [][Next]_vars

\* the same program with its timers: a setTimeout callback that is due is
\* run by the event loop, whatever else is going on
InitLive == InitWith(SmallWorlds, MaxScansLive, MaxOpsLive)
SpecLive == InitLive /\ [][Next]_vars /\ WF_vars(ToggleTimer)

\* the same program in a workspace of more than batchSize tracked files
InitLarge == InitWith(LargeWorlds, MaxScansLarge, MaxOpsLarge)
SpecLarge == InitLarge /\ [][Next]_vars

\* a scan of that workspace by itself, under the operations that change what
\* the engine reads: the override store (toggleFileStatus and its timer) and
\* the files on disk
BatchWorlds == {[disk |-> largeDisk, rc |-> tsOnlyRc, workspaceFolders |-> TRUE]}
InitBatch == InitWith(BatchWorlds, MaxScansBatch, MaxOpsBatch)
NextBatch ==
  \/ Activate
  \/ HighlightUnusedFiles
  \/ WalkDone
  \/ ReadDone
  \/ Cancel
  \/ \E p \in Targets : ToggleFileStatus(p)
  \/ ToggleTimer
  \/ \E p \in Targets : DeleteFile(p)
SpecBatch == InitBatch /\ [][NextBatch]_vars

\* ----------------------------------------------- the tree walker by itself
\* Trees over a fixed skeleton: vendor, vendor/x.ts, src, src/vendor,
\* src/vendor/x.ts, src/x.ts, each entry absent, a file, a readable
\* directory or a directory readdir fails on.
WalkPaths ==
  {<<vendor>>, <<vendor, x_ts>>, <<src>>, <<src, vendor>>, <<src, vendor, x_ts>>,
   <<src, x_ts>>}
WalkKinds == {"absent", "file", "dir", "lockedDir"}

parentOf(p) == SubSeq(p, 1, Len(p) - 1)

\* the names a directory of the skeleton may hold, in readdir order
skeletonItems(p) ==
  IF p = <<>> THEN <<vendor, src>>
  ELSE IF p = <<src>> THEN <<vendor, x_ts>>
  ELSE IF p \in {<<vendor>>, <<src, vendor>>} THEN <<x_ts>>
  ELSE <<>>

WalkShapes ==
  {k \in [WalkPaths -> WalkKinds] :
     \A p \in WalkPaths :
        (Len(p) > 1 /\ k[p] # "absent") => k[parentOf(p)] \in {"dir", "lockedDir"}}

diskOf(k) ==
  [p \in {<<>>} \cup {q \in WalkPaths : k[q] # "absent"} |->
     IF p # <<>> /\ k[p] = "file" THEN File(<<>>, TRUE)
     ELSE Dir(SelectSeq(skeletonItems(p), LAMBDA n : k[pathJoin(p, n)] # "absent"),
              p = <<>> \/ k[p] = "dir")]

\* .filescavengerrc contents for the walk: any of the two ignore keys given
\* or left to the defaults (which ignore vendor and README.md)
WalkRcs ==
  {noRc} \cup
  {[exists |-> TRUE, parses |-> TRUE, value |-> v] :
     v \in {[ignoreFolders |-> <<>>, ignoreRootFiles |-> <<>>],
            [ignoreFolders |-> <<vendor>>, ignoreRootFiles |-> <<>>],
            [ignoreFolders |-> <<src>>, ignoreRootFiles |-> <<x_ts>>],
            [ignoreFolders |-> <<x_ts, vendor>>, ignoreRootFiles |-> <<vendor, x_ts>>],
            [ignoreFolders |-> <<>>, ignoreRootFiles |-> <<vendor>>],
            [ignoreRootFiles |-> <<src>>]}}

InitWalk ==
  /\ \E k \in WalkShapes : disk = diskOf(k)
  /\ rc \in WalkRcs
  /\ workspaceFolders = TRUE
  /\ userOverrides = [k \in {} |-> TRUE]
  /\ activated = TRUE
  /\ pc = "walking"
  /\ token = FALSE
  /\ allFiles = <<>>
  /\ trackedFiles = <<>>
  /\ i = 0
  /\ j = 0
  /\ batchUnusedFiles = <<>>
  /\ unusedFiles = <<>>
  /\ processedFiles = 0
  /\ providerUnusedFiles = <<>>
  /\ decorationUnusedFiles = {}
  /\ timers = 0
  /\ watcherEvents = {}
  /\ message = noMessage
  /\ scansLeft = 0
  /\ opsLeft = 0
  /\ startOverrides = [k \in {} |-> TRUE]
  /\ pinned = {}
  /\ resetClean = {}
  /\ scanClean = {}
  /\ everUsed = {}
  /\ storeChanged = FALSE
  /\ diskChanged = FALSE
  /\ reports = <<>>
  /\ examinedUsed = {}
  /\ shown = <<>>
  /\ stale = FALSE
  /\ published = <<>>
  /\ reportedDeleted = {}

\* getAllFiles(workspacePath, config.ignoreFolders, config.ignoreRootFiles)
WalkOnly ==
  /\ pc = "walking"
  /\ LET config == readConfigFile(rc)
     IN  allFiles' = getAllFiles(disk, <<>>, config.ignoreFolders, config.ignoreRootFiles)
  /\ pc' = "walked"
  /\ UNCHANGED <<activated, worldVars, userOverrides, token, trackedFiles, i, j,
                 batchUnusedFiles, unusedFiles, processedFiles, providerUnusedFiles,
                 decorationUnusedFiles, timers, watcherEvents, message, scansLeft,
                 opsLeft, historyVars, reports, examinedUsed, viewVars>>

NextWalk == WalkOnly

SpecWalk == InitWalk /\ [][NextWalk]_vars

\* ------------------------------------------- the tracked-file filter alone
\* One flat directory holding any of these files: extensions in lower,
\* upper and mixed case, another extension, a name without a dot, a dotfile.
q_TS == <<"q", ".", "T", "S">>
k_Ts == <<"k", ".", "T", "s">>
w_md == <<"w", ".", "m", "d">>
dot_TS == <<".", "T", "S">>
dot_Ts == <<".", "T", "s">>
dot_md == <<".", "m", "d">>
TrackNames == <<x_ts, q_TS, k_Ts, w_md, locked, dot_ts>>

flatDisk(names) ==
  (<<>> :> Dir(SelectSeq(TrackNames, LAMBDA n : n \in names), TRUE)) @@
  [p \in {<<n>> : n \in names} |-> File(<<>>, TRUE)]

\* .filescavengerrc contents for the filter: fileTypes written in lower,
\* upper or mixed case, or left to the defaults
TrackRcs ==
  {noRc} \cup
  {[exists |-> TRUE, parses |-> TRUE, value |-> [fileTypes |-> t]] :
     t \in {<<dot_ts>>, <<dot_TS>>, <<dot_Ts>>, <<dot_md, dot_TS>>, <<dot_md, dot_ts>>}}

InitTrack ==
  /\ \E names \in SUBSET setOf(TrackNames) : disk = flatDisk(names)
  /\ rc \in TrackRcs
  /\ workspaceFolders = TRUE
  /\ userOverrides = [k \in {} |-> TRUE]
  /\ activated = TRUE
  /\ pc = "walking"
  /\ token = FALSE
  /\ allFiles = <<>>
  /\ trackedFiles = <<>>
  /\ i = 0
  /\ j = 0
  /\ batchUnusedFiles = <<>>
  /\ unusedFiles = <<>>
  /\ processedFiles = 0
  /\ providerUnusedFiles = <<>>
  /\ decorationUnusedFiles = {}
  /\ timers = 0
  /\ watcherEvents = {}
  /\ message = noMessage
  /\ scansLeft = 0
  /\ opsLeft = 0
  /\ startOverrides = [k \in {} |-> TRUE]
  /\ pinned = {}
  /\ resetClean = {}
  /\ scanClean = {}
  /\ everUsed = {}
  /\ storeChanged = FALSE
  /\ diskChanged = FALSE
  /\ reports = <<>>
  /\ examinedUsed = {}
  /\ shown = <<>>
  /\ stale = FALSE
  /\ published = <<>>
  /\ reportedDeleted = {}

\* the walk and the selection of the tracked files
\* (allFiles.filter(...)) of highlightUnusedFiles
TrackOnly ==
  /\ pc = "walking"
  /\ LET config == readConfigFile(rc)
         files  == getAllFiles(disk, <<>>, config.ignoreFolders, config.ignoreRootFiles)
     IN  /\ allFiles' = files
         /\ trackedFiles' = filterTracked(files, config)
  /\ pc' = "tracked"
  /\ UNCHANGED <<activated, worldVars, userOverrides, token, i, j,
                 batchUnusedFiles, unusedFiles, processedFiles, providerUnusedFiles,
                 decorationUnusedFiles, timers, watcherEvents, message, scansLeft,
                 opsLeft, historyVars, reports, examinedUsed, viewVars>>

NextTrack == TrackOnly

SpecTrack == InitTrack /\ [][NextTrack]_vars

\* ------------------------------------------------------------ properties
\* the start index of the batch that holds tracked file number m (1-based)
batchStartOf(m) == ((m - 1) \div batchSize) * batchSize

\* the 1-based position of a tracked file
indexOf(list, file) == CHOOSE m \in 1..Len(list) : list[m] = file

\* the scan's heuristic on a tracked file, as the engine was asked: the file
\* is compared with the files handed to the engine together with it
heuristicUnused(file) ==
  /\ file \in setOf(trackedFiles)
  /\ ~isUsed(disk, file, engineInput(trackedFiles, batchStartOf(indexOf(trackedFiles, file))))

\* C1: for every completed scan and any number of tracked files, a tracked
\* file whose basename appears verbatim in the content of another readable
\* tracked file, in the same batch or in another one, is not in the reported
\* unused list.
C1_NamedFileNeverUnused ==
  pc = "done" =>
    \A m, n \in 1..Len(trackedFiles) :
       ( /\ m # n
         /\ readFileOk(disk, trackedFiles[n])
         /\ includes(disk[trackedFiles[n]].content, basename(trackedFiles[m])) )
       => trackedFiles[m] \notin setOf(unusedFiles)

\* C2: in every reachable state a path whose override is "used" is not among
\* the children the unused-files tree view returns.
C2_UsedNeverVisible ==
  \A p \in DOMAIN userOverrides :
     get(userOverrides, p) => p \notin setOf(getChildren(providerUnusedFiles, userOverrides))

\* C2 witness: a path of the stored unused list is marked used (after a scan
\* and a toggle), so only the filter of getChildren keeps it out of the view.
C2_Witness ==
  \E p \in setOf(providerUnusedFiles) : get(userOverrides, p)

\* C3: a file marked used since before a scan was invoked, and not toggled
\* or reset since, is not in that scan's result, on the first scan and on
\* every later one; in the example tree (a.ts, b.ts containing import "./a",
\* c.ts) with only c.ts marked used, an undisturbed scan yields exactly b.ts.
C3_PinnedExcluded ==
  pc = "done" =>
    /\ \A p \in pinned : p \notin setOf(unusedFiles)
    /\ ( /\ disk = exampleDisk
         /\ ~token /\ ~storeChanged
         /\ DOMAIN startOverrides = {<<c_ts>>} /\ startOverrides[<<c_ts>>] )
       => unusedFiles = << <<b_ts>> >>

\* C3 witness: the second scan of a behaviour has completed in the example
\* tree with c.ts pinned, a file the heuristic classifies unused.
C3_Witness ==
  /\ pc = "done" /\ scansLeft = MaxScans - 2
  /\ disk = exampleDisk /\ ~token /\ ~storeChanged
  /\ pinned = {<<c_ts>>}
  /\ heuristicUnused(<<c_ts>>)
  /\ unusedFiles = << <<b_ts>> >>

\* C4: after reset(path), with no toggle of path since, the next scan
\* classifies path by the heuristic alone: in an undisturbed completed scan
\* the path is in the result exactly when the heuristic calls it unused,
\* whether or not it was marked used before the reset.
C4_ResetForgetsHistory ==
  (pc = "done" /\ ~token /\ ~diskChanged) =>
    \A p \in scanClean : (p \in setOf(unusedFiles)) <=> heuristicUnused(p)

\* C4 witness: a path that was marked used and then reset is scanned and
\* reported unused.
C4_Witness ==
  /\ pc = "done" /\ ~token /\ ~diskChanged
  /\ \E p \in scanClean \cap everUsed : p \in setOf(unusedFiles)

\* the batch the engine left unfinished, if any: the engine's last run
\* stopped at position j of the batch before i
partialBatch ==
  IF i >= batchSize /\ j <= Len(batchAt(trackedFiles, i - batchSize))
  THEN setOf(batchAt(trackedFiles, i - batchSize))
  ELSE {}

\* the result the scan hands to the providers: none when it is cancelled
returnedResult == IF pc = "done" THEN unusedFiles ELSE <<>>

\* C5: after a cancellation, wherever it came, the returned result holds
\* only files of fully completed batches: none of the batch the engine
\* left unfinished.
C5_OnlyCompletedBatches ==
  (pc \in {"done", "cancelled"} /\ token) =>
    setOf(returnedResult) \cap partialBatch = {}

\* C6: a scan whose cancellation was requested while it was walking or
\* batching does not end in Done.
C6_CancelNeverDone ==
  pc = "done" => ~token

\* C7: a scan that ends in Cancelled hands the caller the unused files
\* accumulated so far, with the cancellation signal.
C7_CancelledCarriesPartial ==
  pc = "cancelled" =>
    /\ message.text = "Scan canceled by user."
    /\ setOf(unusedFiles) \subseteq setOf(providerUnusedFiles)

\* C8: a deletion notification for a listed path removes exactly that path,
\* the other entries keeping their order; for an unlisted path the list is
\* unchanged; the decoration set follows the list and the override store is
\* unchanged.
C8_DeleteFrame ==
  [][ \A p \in Targets :
        (p \in watcherEvents /\ p \notin watcherEvents') =>
          /\ userOverrides' = userOverrides
          /\ decorationUnusedFiles' = setOf(providerUnusedFiles')
          /\ IF p \in setOf(providerUnusedFiles)
             THEN \E k \in 1..Len(providerUnusedFiles) :
                    /\ providerUnusedFiles[k] = p
                    /\ providerUnusedFiles' =
                         SubSeq(providerUnusedFiles, 1, k - 1) \o
                         SubSeq(providerUnusedFiles, k + 1, Len(providerUnusedFiles))
                    /\ p \notin setOf(providerUnusedFiles')
             ELSE providerUnusedFiles' = providerUnusedFiles ]_vars

\* C8 witness: a path the last scan published has been deleted and its
\* notification handled: it has left the stored list, others remain.
C8_Witness ==
  /\ pc = "done"
  /\ providerUnusedFiles # <<>>
  /\ \E p \in setOf(unusedFiles) :
        /\ p \notin DOMAIN disk
        /\ p \notin watcherEvents
        /\ p \notin setOf(providerUnusedFiles)

\* the result of a whole scan of the tracked files under given overrides
resultUnder(overrides) ==
  SelectSeq(trackedFiles, LAMBDA file : ~get(overrides, file) /\ heuristicUnused(file))

\* C9: a toggle during a scan does not change that scan's result: a
\* completed scan yields the list it would have yielded with the override
\* store as it was when the scan was invoked.
C9_InFlightResultFixed ==
  (pc = "done" /\ ~token /\ ~diskChanged) => unusedFiles = resultUnder(startOverrides)

\* the files of the tree, and the walker's inputs
filesOf(d) == {p \in DOMAIN d : ~d[p].isDirectory}
walkConfig == readConfigFile(rc)

\* the file lies under a directory (below the workspace folder) whose name
\* is an ignoreFolders entry
underIgnoredFolder(file) ==
  \E n \in 1..(Len(file) - 1) : arrayIncludes(walkConfig.ignoreFolders, file[n])

\* every directory on the way from the workspace folder to the file can be read
reachableByReaddir(file) ==
  \A n \in 0..(Len(file) - 1) : readdirOk(disk, SubSeq(file, 1, n))

\* C10 as claimed: every file under an ignored folder name is absent from
\* the candidate list, and every other file not matching ignoreRootFiles is
\* present.
C10_WalkerAsClaimed ==
  pc = "walked" =>
    \A file \in filesOf(disk) :
       /\ underIgnoredFolder(file) => file \notin setOf(allFiles)
       /\ ( /\ ~underIgnoredFolder(file)
            /\ ~arrayIncludes(walkConfig.ignoreRootFiles, basename(file)) )
          => file \in setOf(allFiles)

\* C10 amended: every file under an ignored folder name, at any depth, is
\* absent from the candidate list, and every other file not matching
\* ignoreRootFiles is present provided every directory above it can be read.
C10_WalkerPrunes ==
  pc = "walked" =>
    \A file \in filesOf(disk) :
       /\ underIgnoredFolder(file) => file \notin setOf(allFiles)
       /\ ( /\ ~underIgnoredFolder(file)
            /\ ~arrayIncludes(walkConfig.ignoreRootFiles, basename(file))
            /\ reachableByReaddir(file) )
          => file \in setOf(allFiles)

\* C10 witness: a walk has returned in a tree with a file two levels down
\* under an ignored folder name, left out, and another file, listed.
C10_Witness ==
  /\ pc = "walked"
  /\ \E file \in filesOf(disk) :
        /\ Len(file) = 3
        /\ arrayIncludes(walkConfig.ignoreFolders, file[2])
        /\ ~arrayIncludes(walkConfig.ignoreFolders, file[1])
        /\ readdirOk(disk, SubSeq(file, 1, 2))
        /\ file \notin setOf(allFiles)
  /\ allFiles # <<>>
\* the example tree has been scanned in full: a.ts, b.ts containing
\* import "./a" and c.ts, tracking .ts only, no ignores, no path marked used
\* when the scan was invoked, no cancellation, no toggle or reset meanwhile
exampleScanned ==
  /\ pc = "done" /\ disk = exampleDisk /\ rc = tsOnlyRc
  /\ ~token /\ ~storeChanged
  /\ \A p \in DOMAIN startOverrides : ~startOverrides[p]

\* C11 as claimed: the full scan of the example tree yields exactly c.ts.
C11_ExampleAsClaimed ==
  exampleScanned => unusedFiles = << <<c_ts>> >>

\* C11 amended: the full scan of the example tree yields b.ts and c.ts, in
\* that order: a.ts is used through the stem match in b.ts, nothing names
\* b.ts or c.ts.
C11_ExampleResult ==
  exampleScanned =>
    /\ unusedFiles = << <<b_ts>>, <<c_ts>> >>
    /\ published = << <<b_ts>>, <<c_ts>> >>

\* C11 witness: the example tree has been scanned in full and the result,
\* which holds c.ts, is published.
C11_Witness ==
  /\ exampleScanned
  /\ <<c_ts>> \in setOf(unusedFiles)
  /\ message = [text |-> "Scan complete.", found |-> Len(unusedFiles)]

\* two extension strings are equal when letter case is ignored
equalsIgnoringCase(a, b) == toLowerCase(a) = toLowerCase(b)

\* C12: a walked file is tracked if and only if its extension equals,
\* ignoring letter case, some entry of the configured fileTypes, whatever
\* the case of the file's extension and of the configured entry.
C12_ExtensionCaseInsensitive ==
  pc = "tracked" =>
    \A file \in setOf(allFiles) :
       file \in setOf(trackedFiles) <=>
         \E k \in 1..Len(walkConfig.fileTypes) :
            equalsIgnoringCase(extname(file), walkConfig.fileTypes[k])

\* C13: a scan invoked with no workspace folder shows the error and does
\* nothing else: the command's position and locals (configuration, walk,
\* batches, progress reports), the stored and shown unused lists, the
\* decoration set and the override store are as before; without a workspace
\* folder no scan step ever runs.
C13_NoRootNoScan ==
  /\ [](~workspaceFolders => (pc = "idle" /\ allFiles = <<>> /\ reports = <<>>))
  /\ [][ (~workspaceFolders /\ scansLeft' # scansLeft) =>
           /\ message' = [text |-> "No workspace folder is open.", found |-> 0]
           /\ UNCHANGED <<pc, token, allFiles, trackedFiles, i, j, batchUnusedFiles,
                          unusedFiles, processedFiles, reports>>
           /\ UNCHANGED <<providerUnusedFiles, shown, published, decorationUnusedFiles,
                          userOverrides>> ]_vars

\* C13 witness: the command has been invoked without a workspace folder
\* while the override store held a path marked used; the error is shown, the
\* store still holds the mark and the command is at rest.
C13_Witness ==
  /\ ~workspaceFolders
  /\ message.text = "No workspace folder is open."
  /\ \E p \in DOMAIN userOverrides : userOverrides[p]
  /\ pc = "idle"

\* C14: after activation and before any toggle (no path has been marked
\* used since activation), get(path) is false for every path, whichever
\* overrides the store held from an earlier session (PriorSessions).
C14_StoreDiscardedAtStart ==
  (activated /\ everUsed = {}) =>
    \A p \in Targets \cup DOMAIN userOverrides : ~get(userOverrides, p)

\* C14 witness: after activation and before any toggle a scan of the
\* example tree has completed and reports c.ts, the path an earlier session
\* may have left marked used.
C14_Witness ==
  /\ activated /\ everUsed = {}
  /\ pc = "done" /\ disk = exampleDisk
  /\ ~get(userOverrides, <<c_ts>>)
  /\ <<c_ts>> \in setOf(unusedFiles)

\* the paths the engine has returned in this scan, with the result so far
\* of its current run
engineResults == setOf(unusedFiles) \cup setOf(batchUnusedFiles)

\* the files the engine was given together with a tracked file
givenWith(file) ==
  engineInput(trackedFiles, batchStartOf(indexOf(trackedFiles, file)))

\* otherFile can be read and its content holds the file's name or its name
\* without extension
namedBy(file, otherFile) ==
  /\ readFileOk(disk, otherFile)
  /\ \/ includes(disk[otherFile].content, basename(file))
     \/ includes(disk[otherFile].content, fileNameWithoutExtension(basename(file)))

\* C15: every path the engine returns is a file it was given, whose override
\* did not read "used" when the engine examined it, and that none of the
\* other files it was given names; when the engine has observed the
\* cancellation, the candidates it had not yet examined are not in its result.
C15_EngineReturnsOnlyChecked ==
  /\ \A p \in engineResults :
        /\ p \in setOf(trackedFiles)
        /\ p \notin examinedUsed
        /\ \A m \in 1..Len(givenWith(p)) :
              givenWith(p)[m] # p => ~namedBy(p, givenWith(p)[m])
  /\ (pc \in {"done", "cancelled"} /\ token /\ partialBatch # {}) =>
        \A m \in j..Len(batchAt(trackedFiles, i - batchSize)) :
           batchAt(trackedFiles, i - batchSize)[m] \notin setOf(unusedFiles)

\* C15 witness: the engine observed the cancellation before the end of its
\* batch and returned a result that is not empty.
C15_Witness ==
  /\ pc = "done" /\ token
  /\ partialBatch # {}
  /\ unusedFiles # <<>>

\* the processed count of the latest progress report (0 before the first)
lastProcessed == IF reports = <<>> THEN 0 ELSE reports[Len(reports)].processed

\* C16: batches go to the engine one after the other, each of at least one
\* and at most batchSize (100) files; at every progress report the processed
\* count is the sum of the sizes of the batches handed to the engine so far,
\* it is greater than at the report before, it does not exceed the number of
\* tracked files, and it equals that number when the scan completes.
C16_ProgressCounts ==
  /\ \A k \in 1..Len(reports) :
        /\ reports[k].batchLength >= 1
        /\ reports[k].batchLength <= batchSize
        /\ reports[k].processed =
             (IF k = 1 THEN 0 ELSE reports[k - 1].processed) + reports[k].batchLength
        /\ k > 1 => reports[k].processed > reports[k - 1].processed
        /\ reports[k].total = Len(trackedFiles)
        /\ reports[k].processed <= reports[k].total
  /\ processedFiles = lastProcessed
  /\ pc = "reading" => i = Len(reports) * batchSize
  /\ pc = "done" => lastProcessed = Len(trackedFiles)

\* C16 witness: a scan of more than batchSize tracked files has completed
\* after two reports, the first at batchSize files, the second at all of them.
C16_Witness ==
  /\ pc = "done"
  /\ Len(trackedFiles) > batchSize
  /\ Len(reports) = 2
  /\ reports[1].processed = batchSize
  /\ reports[2].processed = Len(trackedFiles)

\* the file lies under a directory whose name is an ignoreRootFiles entry
underRootFileName(file) ==
  \E n \in 1..(Len(file) - 1) : arrayIncludes(walkConfig.ignoreRootFiles, file[n])

\* C17: no file whose name is an ignoreRootFiles entry is in the candidate
\* list, at whatever depth it lies; a directory with such a name is still
\* descended into: a file below it that the walk can reach, not under an
\* ignored folder and not itself named in ignoreRootFiles, is listed.
C17_RootFilesEveryLevel ==
  pc = "walked" =>
    \A file \in filesOf(disk) :
       /\ arrayIncludes(walkConfig.ignoreRootFiles, basename(file))
            => file \notin setOf(allFiles)
       /\ ( /\ underRootFileName(file)
            /\ ~underIgnoredFolder(file)
            /\ reachableByReaddir(file)
            /\ ~arrayIncludes(walkConfig.ignoreRootFiles, basename(file)) )
          => file \in setOf(allFiles)

\* C17 witness: a walk has returned in a tree where a file two levels down
\* bears an ignoreRootFiles name and could be reached, and is left out, while
\* a file below a directory of such a name is listed.
C17_Witness ==
  /\ pc = "walked"
  /\ \E file \in filesOf(disk) :
        /\ Len(file) = 2
        /\ arrayIncludes(walkConfig.ignoreRootFiles, basename(file))
        /\ ~underIgnoredFolder(file)
        /\ reachableByReaddir(file)
        /\ file \notin setOf(allFiles)
  /\ \E file \in filesOf(disk) :
        /\ underRootFileName(file)
        /\ file \in setOf(allFiles)

\* the tree view shows the stored unused list without the paths whose
\* override is "used"
viewConsistent ==
  shown = SelectSeq(providerUnusedFiles, LAMBDA file : ~get(userOverrides, file))

\* C18: after every toggle a tree-view refresh is eventually fired, and the
\* toggle's timer stays pending until one is; reset fires its refresh in the
\* handler; from each refresh until the next toggle the shown list is the
\* current unused list without the paths marked used, whatever scans,
\* deletions or other toggles came in between.
C18_EventuallyConsistent ==
  /\ stale ~> ~stale
  /\ [](stale => timers > 0)
  /\ [](~stale => viewConsistent)
  /\ [][(\E p \in Targets : ResetFileState(p)) => ~stale']_vars

\* C18 witness: every timer has fired, the last refresh came after the last
\* toggle, and the view leaves out a path of the stored list that a toggle
\* marked used.
C18_Witness ==
  /\ timers = 0 /\ ~stale
  /\ \E p \in setOf(providerUnusedFiles) \cap everUsed :
        /\ get(userOverrides, p)
        /\ p \notin setOf(shown)
  /\ shown # <<>>

\* the file at p has been deleted and the watcher's notification for it
\* has been handled
deletionNotified(p) == p \notin DOMAIN disk /\ p \notin watcherEvents

\* C19: once the deletion of a path has been notified the stored unused
\* list does not hold it again, in particular not when a scan that was in
\* flight at the deletion completes.  (A deleted file does not come back in
\* this model, so no later walk finds it.)
C19_DeletedStaysOut ==
  \A p \in Targets :
     deletionNotified(p) => p \notin setOf(providerUnusedFiles)

\* C20: in every state between handler executions the stored unused list
\* is the list the last completed scan published without the paths reported
\* deleted since, in the published order (so toggle and reset neither add
\* nor remove entries); the children the tree view returns are that list
\* without the paths whose override is "used"; the decoration provider's set
\* holds exactly the paths of the stored list.
C20_VisibleIsPublishedFiltered ==
  /\ providerUnusedFiles =
       SelectSeq(published, LAMBDA file : file \notin reportedDeleted)
  /\ getChildren(providerUnusedFiles, userOverrides) =
       SelectSeq(published,
                 LAMBDA file : file \notin reportedDeleted /\ ~get(userOverrides, file))
  /\ decorationUnusedFiles = {providerUnusedFiles[k] : k \in 1..Len(providerUnusedFiles)}

\* C20 witness: since the last publication a published path has been
\* reported deleted and a path still stored has been marked used.
C20_Witness ==
  /\ reportedDeleted \cap setOf(published) # {}
  /\ \E p \in setOf(providerUnusedFiles) : get(userOverrides, p)

\* the number of batches handed to the engine so far in this scan: one per
\* progress report, and the one the engine is working on
handedCount == Len(reports) + (IF pc = "reading" THEN 1 ELSE 0)

\* the batch the loop hands to the engine on its k-th round
handedBatch(k) == batchAt(trackedFiles, (k - 1) * batchSize)

\* the first n batches, one after the other
RECURSIVE handedUpTo(_)
handedUpTo(n) == IF n = 0 THEN <<>> ELSE handedUpTo(n - 1) \o handedBatch(n)

\* C21: the batches handed to the engine are consecutive pieces of the
\* tracked-file list, in list order: together they are a prefix of it, and
\* the whole of it when the scan completes, so that every tracked file is in
\* exactly one batch; the result of a completed scan is a subsequence of the
\* tracked-file list, with no path twice and no path that is not tracked.
C21_BatchesPartition ==
  /\ \A k \in 1..Len(reports) : reports[k].batchLength = Len(handedBatch(k))
  /\ pc \in {"reading", "done", "cancelled"} =>
       LET handed == handedUpTo(handedCount)
       IN  /\ Len(handed) <= Len(trackedFiles)
           /\ handed = SubSeq(trackedFiles, 1, Len(handed))
           /\ pc = "done" => handed = trackedFiles
  /\ pc = "done" =>
       /\ Cardinality(setOf(trackedFiles)) = Len(trackedFiles)
       /\ Cardinality(setOf(unusedFiles)) = Len(unusedFiles)
       /\ setOf(unusedFiles) \subseteq setOf(trackedFiles)
       /\ unusedFiles =
            SelectSeq(trackedFiles, LAMBDA file : arrayIncludes(unusedFiles, file))

\* C21 witness: a scan of more than batchSize tracked files has completed
\* after two batches, and its result holds files of both.
C21_Witness ==
  /\ pc = "done"
  /\ Len(trackedFiles) > batchSize
  /\ handedCount = 2
  /\ setOf(unusedFiles) \cap setOf(handedBatch(1)) # {}
  /\ setOf(unusedFiles) \cap setOf(handedBatch(2)) # {}

=============================================================================
